---------------------------- MODULE Spec2Model ----------------------------
(***************************************************************************)
(* A model of icloud_photo_downloader.py: main, setup_auth and the         *)
(* enumeration / dedup / transfer loop of download_photos, together with   *)
(* the part of the local file system and of the remote library the loop    *)
(* reads and writes.                                                       *)
(*                                                                         *)
(* The program is sequential; pc is the statement it is about to execute.  *)
(* The remote library (pyicloud) and the operating system are the          *)
(* environment: every call into them either returns or raises, and the     *)
(* model takes both branches.  The library's content is fixed for a        *)
(* behaviour; it is either the scenario library or any library of up to    *)
(* MaxAssets descriptors, which is revealed when the program first reads   *)
(* it (the length at len(photos), a descriptor when the iterator first     *)
(* yields it, a rendition when its stream is first read).                  *)
(***************************************************************************)
EXTENDS Integers, Sequences, FiniteSets, TLC

\* ------------------------------------------------------------- bounds
\* The largest library, the longest stream (in chunks) and the number of
\* times the program is run against the same library and tree.
MaxAssets == 2
MaxChunks == 2
MaxRuns == 2

\* ------------------------------------------------------------- state
VARIABLES
    pc,               \* the statement about to run
    run,              \* which run of the program this is (1..MaxRuns)
    auth,             \* setup_auth's local outcome of the code check
    library,          \* the remote library's descriptors revealed so far
    libSize,          \* the remote library's size, -1 until revealed
    total_photos,     \* download_photos locals
    downloaded_count,
    skipped_count,
    idx,              \* how many descriptors the for loop has taken
    filename,
    full_path_file,
    files,            \* the tree: path |-> content, for the paths that exist
    dirs,             \* the directories that exist
    files0,           \* the tree when this run started
    unopened0,        \* the items whose transfer failed in the run before
                      \* this one before their file was opened
    delivered,        \* chunks the open stream has yielded so far
    rendition,        \* asset |-> its rendition, once a fetch returned it
    outcome,          \* this run's terminal outcome of each item, in order
    resolved,         \* this run: item |-> the path the resolve step gave it
    resolutions,      \* every <<descriptor, path>> a resolve step ever gave
    fetched,          \* this run: items photo.download was called for
    opened,           \* this run: items open(..., 'wb') returned a file for
    abort_at          \* the statement whose exception ended the run

vars == <<pc, run, auth, library, libSize, total_photos, downloaded_count,
          skipped_count, idx, filename, full_path_file, files, dirs, files0,
          unopened0, delivered, rendition, outcome, resolved, resolutions,
          fetched, opened, abort_at>>

\* ------------------------------------------------------ configuration
DOWNLOAD_DIR == "icloud_photo_backup"
DOWNLOAD_SIZE == "original"

\* ------------------------------------------------- the remote library
Filenames == {"IMG_0001.JPG", "IMG_0002.JPG"}

\* photo.created of an asset without creation date metadata.
NoDate == [year |-> 0, month |-> 0, day |-> 0]

Dates ==
    { [year |-> 2023, month |-> 5, day |-> 14],
      [year |-> 2023, month |-> 6, day |-> 1] }

\* An asset descriptor as the loop reads it: photo.filename, photo.created.
Asset == [filename : Filenames, created : Dates \cup {NoDate}]

\* The k-th chunk of the DOWNLOAD_SIZE rendition of the i-th asset.
Chunk(i, k) == <<i, k>>

\* The rendition of asset i when its stream is n chunks long.
Rendition(i, n) == [k \in 1..n |-> Chunk(i, k)]

\* The library of the three-descriptor scenario: A dated 2023-05-14, B
\* without a date, C dated 2023-05-14 with A's file name.
ScenarioLibrary ==
    << [filename |-> "IMG_0001.JPG",
        created |-> [year |-> 2023, month |-> 5, day |-> 14]],
       [filename |-> "IMG_0002.JPG", created |-> NoDate],
       [filename |-> "IMG_0001.JPG",
        created |-> [year |-> 2023, month |-> 5, day |-> 14]] >>

\* The content of a file that was in the tree before the first run.
OldContent == << <<0, 0>> >>

\* ------------------------------------------------------- path algebra
RECURSIVE Pow10(_)
Pow10(w) == IF w = 0 THEN 1 ELSE 10 * Pow10(w - 1)

\* n in decimal, zero-padded to w digits (strftime's %Y and %m).
Pad(n, w) == [k \in 1..w |-> (n \div Pow10(w - k)) % 10]

\* asset_date.strftime("%Y/%m"): the two path components YYYY and MM.
strftime(asset_date) == <<Pad(asset_date.year, 4), Pad(asset_date.month, 2)>>

\* os.path.join on paths kept as sequences of components.
join(a, b) == a \o b

\* What os.makedirs(p, exist_ok=True) adds: p and every ancestor of p.
makedirs(p) == { SubSeq(p, 1, k) : k \in 1..Len(p) }

\* Lines 76-79: the directory of an asset, root/YYYY/MM.
sub_dir(photo) == strftime(photo.created)
full_path_dir(photo) == join(<<DOWNLOAD_DIR>>, sub_dir(photo))

\* full_path with the item's number added to keep names apart.
full_path_numbered(dir, name) == join(dir, <<name, idx>>)

\* Line 81: the file path, the directory joined with the file name.
full_path(dir, name) == join(dir, <<name>>)

\* Lines 76-81 as one function of the descriptor.
ResolvePath(photo) == full_path(full_path_dir(photo), photo.filename)

\* CannotResolve with a fallback directory for an asset without a date.
CannotResolveNever(photo) == FALSE

\* Lines 76-78 raise (and line 82 catches) for an asset without a date:
\* photo.created is None and has no strftime.
CannotResolve(photo) == photo.created = NoDate

\* exists looking for the bare file name, which is nowhere in the tree.
existsNowhere(fs, path) == <<path[Len(path)]>> \in DOMAIN fs

\* exists answering that no file is there, whatever the tree holds.
existsNever(fs, path) == FALSE

\* exists taking a file shorter than the longest stream for a missing one.
existsWhole(fs, path) == path \in DOMAIN fs /\ Len(fs[path]) >= MaxChunks

\* exists taking an empty file for a missing one.
existsNonEmpty(fs, path) == path \in DOMAIN fs /\ fs[path] # <<>>

\* Line 90: os.path.exists(path) on the tree fs.
exists(fs, path) == path \in DOMAIN fs

\* Every file path the loop can resolve.
Paths == { ResolvePath(a) : a \in {x \in Asset : x.created # NoDate} }

loc == <<total_photos, downloaded_count, skipped_count, idx, filename,
         full_path_file>>
remote == <<library, libSize, rendition>>
tree == <<files, dirs>>
log == <<outcome, resolved, resolutions, fetched, opened>>

\* How many files the tree may hold before the first run.
MaxPreexisting == 1

\* The trees the first run may start from: some files left by earlier use,
\* each in its directory.
InitialFiles ==
    { [p \in S |-> OldContent] :
        S \in {T \in SUBSET Paths : Cardinality(T) <= MaxPreexisting} }

DirsOf(fs) == UNION { makedirs(SubSeq(p, 1, Len(p) - 1)) : p \in DOMAIN fs }

Init ==
    /\ pc = "main"
    /\ run = 1
    /\ auth = ""
    /\ \/ library = <<>> /\ libSize = -1
       \/ library = ScenarioLibrary /\ libSize = Len(ScenarioLibrary)
    /\ total_photos = 0
    /\ downloaded_count = 0
    /\ skipped_count = 0
    /\ idx = 0
    /\ filename = ""
    /\ full_path_file = <<>>
    /\ files \in InitialFiles
    /\ dirs = DirsOf(files)
    /\ files0 = files
    /\ unopened0 = {}
    /\ delivered = 0
    /\ rendition = <<>>
    /\ outcome = <<>>
    /\ resolved = <<>>
    /\ resolutions = {}
    /\ fetched = {}
    /\ opened = {}
    /\ abort_at = ""

\* ------------------------------------------------ exceptions and exits
\* Abort with main starting over after an error.
AbortRetry(at) ==
    /\ pc' = "main"
    /\ abort_at' = at
    /\ UNCHANGED <<run, auth, loc, remote, tree, files0, unopened0, delivered,
                   log>>

\* An exception that reaches main's handlers, or sys.exit(1) itself: the
\* process ends with status 1.  at names the statement that raised.
Abort(at) ==
    /\ pc' = "exit1"
    /\ abort_at' = at
    /\ UNCHANGED <<run, auth, loc, remote, tree, files0, unopened0, delivered,
                   log>>

\* SkipItem with the increment of line 85, 91 or 110 left out.
SkipItemUncounted(why) ==
    /\ skipped_count' = skipped_count
    /\ outcome' = Append(outcome, why)
    /\ pc' = "for"
    /\ UNCHANGED <<total_photos, downloaded_count, idx, filename>>

\* The except branches of the loop (lines 82-86 and 108-110), and the
\* already-exists branch (lines 90-92): count the item as skipped and go on
\* with the next one.
SkipItem(why) ==
    /\ skipped_count' = skipped_count + 1
    /\ outcome' = Append(outcome, why)
    /\ pc' = "for"
    /\ UNCHANGED <<total_photos, downloaded_count, idx, filename>>

\* ----------------------------------------------------------------- main
\* main, lines 121-132: read the credentials and log in.
Login ==
    /\ pc = "main"
    /\ \E r \in {"ok", "PyiCloudFailedLoginException", "Exception"} :
         IF r = "ok"
         THEN /\ pc' = "setup_auth"
              /\ UNCHANGED <<run, auth, loc, remote, tree, files0, unopened0,
                             delivered, log, abort_at>>
         ELSE Abort("login")

\* SetupAuthVerify going on to the download when no check accepted the code.
SetupAuthLenient ==
    /\ pc = "setup_auth"
    /\ \E valid \in BOOLEAN :
         auth' = IF valid THEN "2fa" ELSE "failed"
    /\ pc' = "download_photos"
    /\ UNCHANGED <<run, loc, remote, tree, files0, unopened0, delivered, log,
                   abort_at>>

\* setup_auth, lines 25-45: ask for the code when a second factor is
\* required and validate it as 2FA, else as 2SA, else sys.exit(1).
SetupAuthVerify ==
    /\ pc = "setup_auth"
    /\ \E requires_2fa, requires_2sa, valid_2fa, valid_2sa, raises \in BOOLEAN :
         IF raises
         THEN Abort("setup_auth")
         ELSE IF ~(requires_2fa \/ requires_2sa)
         THEN /\ auth' = "not_required"
              /\ pc' = "download_photos"
              /\ UNCHANGED <<run, loc, remote, tree, files0, unopened0,
                             delivered, log, abort_at>>
         ELSE IF requires_2fa /\ valid_2fa
         THEN /\ auth' = "2fa"
              /\ pc' = "trust_session"
              /\ UNCHANGED <<run, loc, remote, tree, files0, unopened0,
                             delivered, log, abort_at>>
         ELSE IF requires_2sa /\ valid_2sa
         THEN /\ auth' = "2sa"
              /\ pc' = "trust_session"
              /\ UNCHANGED <<run, loc, remote, tree, files0, unopened0,
                             delivered, log, abort_at>>
         ELSE /\ auth' = "failed"
              /\ pc' = "exit1"
              /\ abort_at' = "setup_auth"
              /\ UNCHANGED <<run, loc, remote, tree, files0, unopened0,
                             delivered, log>>

\* setup_auth, lines 48-51: establish session trust if needed, and return.
SetupAuthTrust ==
    /\ pc = "trust_session"
    /\ \E is_trusted_session, raises \in BOOLEAN :
         IF ~is_trusted_session /\ raises
         THEN Abort("trust_session")
         ELSE /\ pc' = "download_photos"
              /\ UNCHANGED <<run, auth, loc, remote, tree, files0, unopened0,
                             delivered, log, abort_at>>

\* ------------------------------------------------------ download_photos
\* MakeDownloadDir starting from a fresh, empty download directory.
MakeDownloadDirFresh ==
    /\ pc = "download_photos"
    /\ files' = <<>>
    /\ dirs' = makedirs(<<DOWNLOAD_DIR>>)
    /\ auth' = ""
    /\ pc' = "photos_all"
    /\ UNCHANGED <<run, loc, remote, files0, unopened0, delivered, log,
                   abort_at>>

\* Lines 56-60: os.makedirs(DOWNLOAD_DIR, exist_ok=True).  setup_auth has
\* returned; its outcome is not read again.
MakeDownloadDir ==
    /\ pc = "download_photos"
    /\ \E raises \in BOOLEAN :
         IF raises
         THEN Abort("makedirs")
         ELSE /\ dirs' = dirs \cup makedirs(<<DOWNLOAD_DIR>>)
              /\ auth' = ""
              /\ pc' = "photos_all"
              /\ UNCHANGED <<run, loc, remote, files, files0, unopened0,
                             delivered, log, abort_at>>

\* Line 63: photos = api.photos.all.
PhotosAll ==
    /\ pc = "photos_all"
    /\ \E raises \in BOOLEAN :
         IF raises
         THEN Abort("photos_all")
         ELSE /\ pc' = "len"
              /\ UNCHANGED <<run, auth, loc, remote, tree, files0, unopened0,
                             delivered, log, abort_at>>

\* Lines 64-68: total_photos = len(photos) and the two counters.
LenPhotos ==
    /\ pc = "len"
    /\ \E raises \in BOOLEAN :
         IF raises
         THEN Abort("len")
         ELSE /\ \E n \in 0..(IF libSize = -1 THEN MaxAssets ELSE libSize) :
                   /\ libSize # -1 => n = libSize
                   /\ libSize' = n
                   /\ total_photos' = n
              /\ downloaded_count' = 0
              /\ skipped_count' = 0
              /\ pc' = "for"
              /\ UNCHANGED <<run, auth, idx, filename, full_path_file,
                             library, rendition, tree, files0, unopened0,
                             delivered, log, abort_at>>

\* Line 71: the for statement takes the next descriptor from the album's
\* iterator, which fetches it from the remote library, or ends the loop.
ForNext ==
    /\ pc = "for"
    /\ \E raises \in BOOLEAN :
         IF raises
         THEN Abort("for")
         ELSE IF idx < libSize
         THEN /\ \E a \in Asset :
                   /\ idx < Len(library) => a = library[idx + 1]
                   /\ library' = IF idx < Len(library) THEN library
                                 ELSE Append(library, a)
              /\ idx' = idx + 1
              /\ pc' = "filename"
              /\ UNCHANGED <<run, auth, total_photos, downloaded_count,
                             skipped_count, filename, full_path_file, libSize,
                             rendition, tree, files0, unopened0, delivered,
                             log, abort_at>>
         ELSE /\ pc' = "summary"
              /\ UNCHANGED <<run, auth, loc, remote, tree, files0, unopened0,
                             delivered, log, abort_at>>

\* Line 72: filename = photo.filename, a property read outside any try.
ReadFilename ==
    /\ pc = "filename"
    /\ \E raises \in BOOLEAN :
         IF raises
         THEN Abort("filename")
         ELSE /\ filename' = library[idx].filename
              /\ pc' = "resolve"
              /\ UNCHANGED <<run, auth, total_photos, downloaded_count,
                             skipped_count, idx, full_path_file, remote, tree,
                             files0, unopened0, delivered, log, abort_at>>

\* Lines 75-86: the try block that derives the directory from photo.created,
\* creates it and joins the file path; any exception skips the item.  A
\* failing os.makedirs may have created the ancestors it got to.
Resolve ==
    /\ pc = "resolve"
    /\ LET photo == library[idx]
           dir == full_path_dir(photo)
       IN  IF CannotResolve(photo)
           THEN /\ SkipItem("unresolved")
                /\ UNCHANGED <<run, auth, full_path_file, remote, tree,
                               files0, unopened0, delivered, resolved,
                               resolutions, fetched, opened, abort_at>>
           ELSE \/ /\ dirs' = dirs \cup makedirs(dir)
                   /\ full_path_file' = full_path(dir, filename)
                   /\ resolved' = (idx :> full_path_file') @@ resolved
                   /\ resolutions' =
                        resolutions \cup {<<photo, full_path_file'>>}
                   /\ pc' = "exists"
                   /\ UNCHANGED <<run, auth, total_photos, downloaded_count,
                                  skipped_count, idx, filename, remote, files,
                                  files0, unopened0, delivered, outcome,
                                  fetched, opened, abort_at>>
                \/ \E k \in 1..(Len(dir) - 1) :
                     /\ dirs' = dirs \cup makedirs(SubSeq(dir, 1, k))
                     /\ SkipItem("unresolved")
                     /\ UNCHANGED <<run, auth, full_path_file, remote, files,
                                    files0, unopened0, delivered, resolved,
                                    resolutions, fetched, opened, abort_at>>

\* Lines 90-92: os.path.exists(full_path_file).
Exists ==
    /\ pc = "exists"
    /\ IF exists(files, full_path_file)
       THEN /\ SkipItem("exists")
            /\ UNCHANGED <<run, auth, full_path_file, remote, tree, files0,
                           unopened0, delivered, resolved, resolutions,
                           fetched, opened, abort_at>>
       ELSE /\ pc' = "download"
            /\ UNCHANGED <<run, auth, loc, remote, tree, files0, unopened0,
                           delivered, log, abort_at>>

\* Download started in the background, the loop going on with the next item.
DownloadDeferred ==
    /\ pc = "download"
    /\ fetched' = fetched \cup {idx}
    /\ pc' = "for"
    /\ UNCHANGED <<run, auth, loc, remote, tree, files0, unopened0, delivered,
                   outcome, resolved, resolutions, opened, abort_at>>

\* Line 97: download = photo.download(DOWNLOAD_SIZE).
Download ==
    /\ pc = "download"
    /\ fetched' = fetched \cup {idx}
    /\ \E raises \in BOOLEAN :
         IF raises
         THEN /\ SkipItem("failed")
              /\ UNCHANGED <<run, auth, full_path_file, remote, tree, files0,
                             unopened0, delivered, resolved, resolutions,
                             opened, abort_at>>
         ELSE /\ pc' = "open"
              /\ UNCHANGED <<run, auth, loc, remote, tree, files0, unopened0,
                             delivered, outcome, resolved, resolutions,
                             opened, abort_at>>

\* The tree after open(path, 'wb'): the file exists and is empty.
OpenWb(fs, path) ==
    [p \in DOMAIN fs \cup {path} |-> IF p = path THEN <<>> ELSE fs[p]]

\* Lines 100-102: open(full_path_file, 'wb'), and download.iter_content
\* starts reading the response, the stream of the asset's rendition.
Open ==
    /\ pc = "open"
    /\ \E raises \in BOOLEAN :
         IF raises
         THEN /\ SkipItem("failed")
              /\ UNCHANGED <<run, auth, full_path_file, remote, tree, files0,
                             unopened0, delivered, resolved, resolutions,
                             fetched, opened, abort_at>>
         ELSE /\ files' = OpenWb(files, full_path_file)
              /\ opened' = opened \cup {idx}
              /\ \E n \in 0..MaxChunks :
                   /\ idx \in DOMAIN rendition => n = Len(rendition[idx])
                   /\ rendition' = (idx :> Rendition(idx, n)) @@ rendition
              /\ delivered' = 0
              /\ pc' = "iter_content"
              /\ UNCHANGED <<run, auth, loc, library, libSize, dirs, files0,
                             unopened0, outcome, resolved, resolutions,
                             fetched, abort_at>>

\* WriteTo with a write that replaces the file's content.
WriteToReplacing(fs, path, chunk) == [fs EXCEPT ![path] = <<chunk>>]

\* WriteTo putting the chunk in front of what the file holds.
WriteToFront(fs, path, chunk) == [fs EXCEPT ![path] = <<chunk>> \o @]

\* The tree after f.write(chunk) on the file open at path.
WriteTo(fs, path, chunk) == [fs EXCEPT ![path] = Append(@, chunk)]

\* Lines 102-103: the stream yields its next chunk and f.write(chunk)
\* appends it.
WriteChunk ==
    /\ pc = "iter_content"
    /\ delivered < Len(rendition[idx])
    /\ delivered' = delivered + 1
    /\ files' = WriteTo(files, full_path_file, rendition[idx][delivered + 1])
    /\ UNCHANGED <<pc, run, auth, loc, remote, dirs, files0, unopened0, log,
                   abort_at>>

\* Lines 102-103 and 108-110: the stream or the write raises; the with
\* statement closes the file and the except branch skips the item.
TransferFail ==
    /\ pc = "iter_content"
    /\ SkipItem("failed")
    /\ UNCHANGED <<run, auth, full_path_file, remote, tree, files0, unopened0,
                   delivered, resolved, resolutions, fetched, opened,
                   abort_at>>

\* TransferDone counting the item whatever the stream has delivered.
TransferDoneEarly ==
    /\ pc = "iter_content"
    /\ downloaded_count' = downloaded_count + 1
    /\ outcome' = Append(outcome, "downloaded")
    /\ pc' = "for"
    /\ UNCHANGED <<run, auth, total_photos, skipped_count, idx, filename,
                   full_path_file, remote, tree, files0, unopened0, delivered,
                   resolved, resolutions, fetched, opened, abort_at>>

\* Lines 102-105: the stream ends, the file is closed and the item counted.
TransferDone ==
    /\ pc = "iter_content"
    /\ delivered = Len(rendition[idx])
    /\ downloaded_count' = downloaded_count + 1
    /\ outcome' = Append(outcome, "downloaded")
    /\ pc' = "for"
    /\ UNCHANGED <<run, auth, total_photos, skipped_count, idx, filename,
                   full_path_file, remote, tree, files0, unopened0, delivered,
                   resolved, resolutions, fetched, opened, abort_at>>

\* A KeyboardInterrupt while the file is open: it is no Exception, so
\* neither the loop's handler nor main's catches it.
Interrupt ==
    /\ pc = "iter_content"
    /\ pc' = "interrupted"
    /\ UNCHANGED <<run, auth, loc, remote, tree, files0, unopened0, delivered,
                   log, abort_at>>

\* Lines 112-116: the final summary; main returns.
Summary ==
    /\ pc = "summary"
    /\ pc' = "done"
    /\ UNCHANGED <<run, auth, loc, remote, tree, files0, unopened0, delivered,
                   log, abort_at>>

\* After a run that completed, the program is started again, against the
\* same library and the tree that run left.
StartRun ==
    /\ pc = "done"
    /\ run < MaxRuns
    /\ run' = run + 1
    /\ pc' = "main"
    /\ auth' = ""
    /\ total_photos' = 0
    /\ downloaded_count' = 0
    /\ skipped_count' = 0
    /\ idx' = 0
    /\ filename' = ""
    /\ full_path_file' = <<>>
    /\ files0' = files
    /\ unopened0' =
         {i \in DOMAIN outcome : outcome[i] = "failed" /\ i \notin opened}
    /\ delivered' = 0
    /\ outcome' = <<>>
    /\ resolved' = <<>>
    /\ fetched' = {}
    /\ opened' = {}
    /\ abort_at' = ""
    /\ UNCHANGED <<remote, tree, resolutions>>

Next ==
    \/ Login
    \/ SetupAuthVerify
    \/ SetupAuthTrust
    \/ MakeDownloadDir
    \/ PhotosAll
    \/ LenPhotos
    \/ ForNext
    \/ ReadFilename
    \/ Resolve
    \/ Exists
    \/ Download
    \/ Open
    \/ WriteChunk
    \/ TransferFail
    \/ TransferDone
    \/ Interrupt
    \/ Summary

\* One run of the program, from a tree that may hold earlier files.
Spec == Init /\ [][Next]_vars

\* The program run up to MaxRuns times against the same library, the first
\* time from an empty tree.
InitEmpty == Init /\ files = <<>>

NextRerun == Next \/ StartRun

SpecRerun == InitEmpty /\ [][NextRerun]_vars

\* ------------------------------------------------------------ claims
\* The statements of one loop iteration after the for statement.
InItem == {"filename", "resolve", "exists", "download", "open", "iter_content"}

Outcomes == { outcome[i] : i \in DOMAIN outcome }

\* The items of this run that have reached a terminal outcome: all the
\* iterator has yielded, but the one being processed.
Finished ==
    IF \/ pc \in InItem \cup {"interrupted"}
       \/ pc = "exit1" /\ abort_at = "filename"
    THEN idx - 1
    ELSE idx

\* C1: every item that has reached a terminal outcome has added exactly one
\* to exactly one of downloaded_count and skipped_count: at every point of
\* the run the two counters add up to the number of finished items, the
\* downloaded ones in downloaded_count and the others in skipped_count, and
\* after the loop they add up to total_photos.
CountersCountTerminalItems ==
    /\ downloaded_count + skipped_count = Finished
    /\ Len(outcome) = Finished
    /\ downloaded_count
         = Cardinality({i \in DOMAIN outcome : outcome[i] = "downloaded"})
    /\ skipped_count
         = Cardinality({i \in DOMAIN outcome : outcome[i] # "downloaded"})
    /\ pc \in {"summary", "done"} =>
         downloaded_count + skipped_count = total_photos

\* A completed run with a downloaded, an unresolved and a failed item.
CountersWitness ==
    /\ pc = "done"
    /\ {"downloaded", "unresolved", "failed"} \subseteq Outcomes

\* The items of the library are all dated and resolve to distinct paths.
AllDatedDistinct ==
    /\ \A i \in DOMAIN library : library[i].created # NoDate
    /\ \A i, j \in DOMAIN library :
         i # j => ResolvePath(library[i]) # ResolvePath(library[j])

\* The transfer failed for item i and succeeded for every other item.
OnlyFailure(i) ==
    /\ i \in DOMAIN outcome
    /\ outcome[i] = "failed"
    /\ \A j \in DOMAIN outcome : j # i => outcome[j] = "downloaded"

\* C2: from an empty tree, with all items dated and their paths distinct,
\* when the transfer fails for exactly one item and succeeds for the
\* others, the run ends with downloaded = N-1 and skipped = 1 and every
\* other item's file holds its rendition, wherever the failing item is.
Isolation ==
    \A i \in 1..total_photos :
      ( /\ pc = "done"
        /\ files0 = <<>>
        /\ AllDatedDistinct
        /\ OnlyFailure(i) )
      => /\ downloaded_count = total_photos - 1
         /\ skipped_count = 1
         /\ \A j \in DOMAIN library \ {i} :
              /\ ResolvePath(library[j]) \in DOMAIN files
              /\ files[ResolvePath(library[j])] = rendition[j]

\* Two items, the first fails after its file was opened, the second is
\* downloaded with a rendition of more than one chunk.
IsolationWitness ==
    /\ pc = "done"
    /\ files0 = <<>>
    /\ total_photos = 2
    /\ AllDatedDistinct
    /\ OnlyFailure(1)
    /\ 1 \in opened
    /\ Len(rendition[2]) = 2

\* Every file the run started with is still there with the same content.
StartFilesKept ==
    \A p \in DOMAIN files0 : p \in DOMAIN files /\ files[p] = files0[p]

\* Every dated asset of the library had a file at its path when this run
\* started.
EveryDatedHadFile ==
    \A i \in DOMAIN library :
      ~CannotResolve(library[i]) => ResolvePath(library[i]) \in DOMAIN files0

FailedAfterOpen(i) ==
    i \in DOMAIN outcome /\ outcome[i] = "failed" /\ i \in opened

\* The file at item i's path, if there is one, holds at least one chunk.
WroteSome(i) == resolved[i] \in DOMAIN files => files[resolved[i]] # <<>>

\* C4: after a transfer has failed midway, some chunks written, or been
\* interrupted so, the item's destination path does not exist or holds the
\* complete rendition.
NoPartialFileVisible ==
    \A i \in DOMAIN resolved :
      ( /\ FailedAfterOpen(i) \/ (pc = "interrupted" /\ i = idx)
        /\ WroteSome(i) )
      => \/ resolved[i] \notin DOMAIN files
         \/ files[resolved[i]] = rendition[i]

\* C5: no per-item error ends the run: the run is never aborted by a
\* failure to read an item's metadata.
NoItemErrorAborts == ~(pc = "exit1" /\ abort_at = "filename")

\* The directories the loop creates for dated assets, and their ancestors.
DatedDirs ==
    UNION { makedirs(full_path_dir(a)) :
              a \in {x \in Asset : x.created # NoDate} }

MissingDateInv ==
    /\ \A i \in DOMAIN library :
         library[i].created = NoDate =>
           /\ i \notin fetched
           /\ i \notin opened
           /\ i \notin DOMAIN resolved
           /\ i \in DOMAIN outcome => outcome[i] = "unresolved"
           /\ i = idx => pc \notin InItem \ {"filename", "resolve"}
    /\ dirs \subseteq DatedDirs

MissingDateStep ==
    (pc = "resolve" /\ library[idx].created = NoDate) =>
      /\ skipped_count' = skipped_count + 1
      /\ downloaded_count' = downloaded_count
      /\ dirs' = dirs
      /\ files' = files
      /\ pc' = "for"

\* C6: an asset without a capture date is never fetched and no file is
\* opened for it, it is counted as skipped exactly once, and its resolve
\* step creates no directory; no directory but those of dated assets ever
\* exists under the root.
MissingDateSkip == []MissingDateInv /\ [][MissingDateStep]_vars

\* A completed run that skipped an asset without a date and downloaded
\* another.
MissingDateWitness ==
    /\ pc = "done"
    /\ downloaded_count >= 1
    /\ \E i \in DOMAIN outcome :
         library[i].created = NoDate /\ outcome[i] = "unresolved"

DedupInv ==
    /\ StartFilesKept
    /\ \A i \in DOMAIN outcome :
         outcome[i] = "exists" => i \notin fetched /\ i \notin opened
    /\ \A i \in fetched \cup opened : resolved[i] \notin DOMAIN files0

DedupStep ==
    (pc = "exists" /\ full_path_file \in DOMAIN files) =>
      /\ files' = files
      /\ fetched' = fetched
      /\ opened' = opened
      /\ skipped_count' = skipped_count + 1
      /\ downloaded_count' = downloaded_count
      /\ pc' = "for"

\* C7: when a file exists at an item's path as the item is checked, the
\* item is not fetched, it is counted as skipped and the file is left as it
\* is; every file present before the run has the same content ever after.
DedupNeverOverwrites == []DedupInv /\ [][DedupStep]_vars

\* A completed run that skipped an item because of a file that was there
\* before the run.
DedupWitness ==
    /\ pc = "done"
    /\ \E i \in DOMAIN outcome :
         /\ outcome[i] = "exists"
         /\ resolved[i] \in DOMAIN files0
         /\ files[resolved[i]] = OldContent

\* Items i < j of this run resolved to the same path, and j is finished.
Collide(i, j) ==
    /\ i \in DOMAIN resolved
    /\ j \in DOMAIN resolved
    /\ i < j
    /\ resolved[i] = resolved[j]
    /\ j \in DOMAIN outcome

\* C8 as claimed: whenever two items resolve to the same path, the later
\* one is skipped as already existing, without a transfer.
CollisionAlwaysSkipped ==
    \A i, j \in DOMAIN resolved :
      Collide(i, j) => outcome[j] = "exists" /\ j \notin fetched

\* The run of the scenario A, B, C from an empty tree with A downloaded.
ScenarioRun ==
    /\ pc = "done"
    /\ library = ScenarioLibrary
    /\ files0 = <<>>
    /\ outcome[1] = "downloaded"

\* C8 as amended: when two items resolve to the same path and the earlier
\* one's transfer created the file (or the file was there before the run),
\* the later one is skipped as already existing, without a transfer; when
\* no earlier item created the file, the later one is not skipped as
\* existing.  In the scenario A, B, C with A downloaded the run ends with
\* downloaded = 1, skipped = 2 and one file, A's rendition at A's path.
CollisionSkippedWhenFileLeft ==
    /\ \A i, j \in DOMAIN resolved :
         (Collide(i, j) /\ (i \in opened \/ resolved[i] \in DOMAIN files0))
           => outcome[j] = "exists" /\ j \notin fetched
    /\ \A j \in DOMAIN resolved :
         ( /\ j \in DOMAIN outcome
           /\ resolved[j] \notin DOMAIN files0
           /\ \A i \in opened : ~Collide(i, j) )
           => outcome[j] # "exists"
    /\ ScenarioRun =>
         /\ downloaded_count = 1
         /\ skipped_count = 2
         /\ fetched = {1}
         /\ DOMAIN files = {ResolvePath(ScenarioLibrary[1])}
         /\ files[ResolvePath(ScenarioLibrary[1])] = rendition[1]

\* The scenario has run to its end with A downloaded in two chunks, B
\* skipped for its missing date and C for the file A left.
CollisionWitness ==
    /\ ScenarioRun
    /\ Len(rendition[1]) = 2
    /\ outcome = <<"downloaded", "unresolved", "exists">>

\* The statements that enumerate the library.
Enumeration == {"photos_all", "len", "for"}

\* C9 as claimed: when the run is aborted because the library cannot be
\* enumerated, no transfer has been attempted and no file written.
AbortBeforeAnyWork ==
    abort_at \in Enumeration => fetched = {} /\ files = files0

\* C9 as amended: a failure to obtain the collection, its length or the next
\* descriptor ends the process with status 1 and nothing runs after it (no
\* retry); when the collection or its length failed, or the first
\* descriptor, no item has been resolved, fetched or written; when a later
\* descriptor failed, the items before it have all finished and only they
\* have been transferred.
EnumerationAbort ==
    abort_at \in Enumeration =>
      /\ pc = "exit1"
      /\ ~ENABLED Next
      /\ Len(outcome) = idx
      /\ fetched \cup opened \subseteq 1..idx
      /\ (abort_at # "for" \/ idx = 0) =>
           /\ idx = 0
           /\ resolved = <<>>
           /\ fetched = {}
           /\ opened = {}
           /\ files = files0

\* The iterator failed after the first item was downloaded.
EnumerationAbortWitness ==
    /\ pc = "exit1"
    /\ abort_at = "for"
    /\ outcome = <<"downloaded">>
    /\ files # files0

\* C10: the resolved path is a function of the file name and of the year
\* and month of the capture date: any two resolve steps, of any items in
\* any runs, on descriptors equal in these gave the same path, whatever the
\* tree, the counters and the items before them were.
PathDeterminism ==
    \A r1, r2 \in resolutions :
      ( /\ r1[1].filename = r2[1].filename
        /\ r1[1].created.year = r2[1].created.year
        /\ r1[1].created.month = r2[1].created.month )
      => r1[2] = r2[2]

\* In a second run, on a tree that is no longer empty, two items with the
\* same descriptor have been resolved, the first of them in the first run
\* too.
PathDeterminismWitness ==
    /\ run = 2
    /\ files0 # <<>>
    /\ \E i, j \in DOMAIN resolved :
         /\ i < j
         /\ library[i] = library[j]
         /\ resolved[i] \in DOMAIN files0

\* The statements of the transfer step (lines 94-105).
Transferring == {"download", "open", "iter_content"}

OutcomeInv ==
    /\ \A i \in DOMAIN outcome :
         /\ outcome[i] \in {"downloaded", "unresolved", "exists", "failed"}
         /\ outcome[i] = "unresolved" <=> i \notin DOMAIN resolved
         /\ outcome[i] = "exists" <=>
              (i \in DOMAIN resolved /\ i \notin fetched)
         /\ outcome[i] \in {"downloaded", "failed"} <=> i \in fetched
         /\ outcome[i] = "downloaded" => i \in opened
    /\ fetched \cup opened \subseteq DOMAIN resolved
    /\ opened \subseteq fetched
    /\ pc \in Transferring =>
         /\ idx \in DOMAIN resolved
         /\ resolved[idx] = full_path_file
         /\ resolved[idx] \notin DOMAIN files0
    /\ pc \in {"download", "open"} => full_path_file \notin DOMAIN files

OutcomeStep ==
    /\ downloaded_count' = downloaded_count + 1 =>
         /\ pc = "iter_content"
         /\ idx \in DOMAIN resolved
         /\ idx \in fetched
         /\ idx \in opened
         /\ delivered = Len(rendition[idx])
         /\ files[full_path_file] = rendition[idx]
         /\ skipped_count' = skipped_count
         /\ outcome' = Append(outcome, "downloaded")
    /\ skipped_count' = skipped_count + 1 =>
         /\ downloaded_count' = downloaded_count
         /\ \/ pc = "resolve"
            \/ pc = "exists" /\ full_path_file \in DOMAIN files
            \/ pc \in Transferring
    /\ (pc \in Transferring /\ pc' = "for" /\ skipped_count' = skipped_count)
         => downloaded_count' = downloaded_count + 1
    /\ (pc' = "exists" /\ pc # "exists") =>
         pc = "resolve" /\ idx \in DOMAIN resolved'
    /\ (pc' = "download" /\ pc # "download") =>
         /\ pc = "exists"
         /\ idx \in DOMAIN resolved
         /\ full_path_file \notin DOMAIN files

\* C11: an item is counted as downloaded exactly when its path resolved, no
\* file was at the path when it was checked, the fetch returned and the
\* whole stream was written; an item that left the loop body otherwise
\* (resolve failure, path exists, fetch, open or write failure) is counted
\* as skipped; and the transfer step is entered only from the check of a
\* resolved path that found no file.
OutcomeClassification == []OutcomeInv /\ [][OutcomeStep]_vars

\* The scenario has run to its end with A's fetch failed before its file
\* was opened, B skipped for its missing date and C, finding no file,
\* downloaded.
OutcomeWitness ==
    /\ pc = "done"
    /\ library = ScenarioLibrary
    /\ outcome = <<"failed", "unresolved", "downloaded">>
    /\ 1 \notin opened

\* The items a step of this run has touched.
Touched == DOMAIN resolved \cup fetched \cup opened

SequentialInv ==
    /\ Touched \subseteq 1..idx
    /\ 1..idx \subseteq DOMAIN library
    /\ pc \in InItem => Len(outcome) = idx - 1
    /\ pc \in InItem \ {"filename"} => filename = library[idx].filename
    /\ {i \in Touched : i \notin DOMAIN outcome} \subseteq {idx}
    /\ Cardinality({i \in fetched : i \notin DOMAIN outcome}) <= 1

SequentialStep ==
    /\ idx' # idx =>
         /\ idx' = idx + 1
         /\ Len(outcome) = idx
         /\ downloaded_count + skipped_count = idx
    /\ (\/ Touched' # Touched
        \/ files' # files
        \/ dirs' # dirs /\ pc # "download_photos") =>
         /\ idx' = idx
         /\ Len(outcome) = idx - 1
         /\ Touched' \ Touched \subseteq {idx}
         /\ \A p \in DOMAIN files' :
              (p \notin DOMAIN files \/ files'[p] # files[p])
                => p = resolved'[idx]

\* C12: items are taken in enumeration order, one at a time: the loop takes
\* descriptor idx + 1 only when items 1..idx have all reached their
\* terminal outcome and been counted, every resolve, fetch, open and write
\* is a step of the item taken last, all items before it being terminal,
\* and at most one item is in its transfer at any time.
StrictSequentialOrder == []SequentialInv /\ [][SequentialStep]_vars

\* The second item's stream is half written, after the first item was
\* downloaded.
SequentialWitness ==
    /\ pc = "iter_content"
    /\ idx = 2
    /\ outcome = <<"downloaded">>
    /\ delivered = 1
    /\ Len(rendition[2]) = 2

\* C13: once an item is counted as downloaded, the file at its resolved
\* path holds its complete rendition in every later state of the run,
\* whatever later items do: fail in their transfer, or resolve to the same
\* path.
DownloadedStayIntact ==
    \A i \in DOMAIN outcome :
      outcome[i] = "downloaded" =>
        /\ resolved[i] \in DOMAIN files
        /\ files[resolved[i]] = rendition[i]

\* A completed run: the first item was downloaded in two chunks, the
\* second's transfer failed after it had written to its own file.
DownloadedStayIntactWitness ==
    /\ pc = "done"
    /\ outcome = <<"downloaded", "failed">>
    /\ Len(rendition[1]) = 2
    /\ 2 \in opened
    /\ files[resolved[2]] # <<>>

ChunkedInv ==
    pc = "iter_content" =>
      files[full_path_file] = SubSeq(rendition[idx], 1, delivered)

ChunkedStep ==
    /\ opened' # opened =>
         /\ full_path_file \notin DOMAIN files
         /\ files'[full_path_file] = <<>>
    /\ (pc = "iter_content" /\ delivered' # delivered) =>
         /\ delivered' = delivered + 1
         /\ files'[full_path_file]
              = Append(files[full_path_file], rendition[idx][delivered'])
    /\ downloaded_count' = downloaded_count + 1 =>
         /\ Len(files[full_path_file]) = Len(rendition[idx])
         /\ \A k \in 1..Len(rendition[idx]) :
              files[full_path_file][k] = Chunk(idx, k)

\* C14: the file is created new and empty when it is opened, each chunk
\* the stream delivers is appended to it once, so that during the transfer
\* the file is the sequence of the chunks delivered so far, and when the
\* transfer succeeds the file is the whole stream, chunk for chunk in
\* delivery order, for a stream of any number of chunks, none included.
ChunkedTransfer == []ChunkedInv /\ [][ChunkedStep]_vars

\* A completed run that downloaded an empty stream and a stream of
\* MaxChunks chunks.
ChunkedTransferWitness ==
    /\ pc = "done"
    /\ outcome = <<"downloaded", "downloaded">>
    /\ files[resolved[1]] = <<>>
    /\ Len(files[resolved[2]]) = MaxChunks

\* When this run started, the file at item i's path held less than the
\* rendition of i, whose transfer had opened it in an earlier run.
LeftTruncated(i) ==
    /\ ~CannotResolve(library[i])
    /\ ResolvePath(library[i]) \in DOMAIN files0
    /\ i \in DOMAIN rendition
    /\ Len(files0[ResolvePath(library[i])]) < Len(rendition[i])

\* An item before i has opened, in this run, the path i resolved to.
OpenedBefore(i) ==
    \E j \in opened : j < i /\ resolved[j] = resolved[i]

\* C15 as claimed, its second part: an item whose transfer failed in the
\* run before, before its file was opened, is fetched again in this run
\* once its path is resolved and it has reached its outcome.
FailedFetchRetried ==
    run >= 2 =>
      \A i \in unopened0 :
        (i \in DOMAIN outcome /\ i \in DOMAIN resolved) => i \in fetched

\* C15 as amended: in a run after a run that left a truncated file at an
\* item's path, the item is not fetched, no file is opened for it, it ends
\* as skipped and the file keeps its truncated content; an item whose
\* transfer failed before its file was opened created no file, so that a
\* file at its path is another item's, and in the next run it is fetched
\* again when its path resolves and no file is at the path, neither at the
\* start of the run nor opened by an item before it.
PartialFilesPermanent ==
    run >= 2 =>
      /\ \A i \in DOMAIN library :
           LeftTruncated(i) =>
             /\ i \notin fetched
             /\ i \notin opened
             /\ files[ResolvePath(library[i])]
                  = files0[ResolvePath(library[i])]
             /\ i \in DOMAIN outcome =>
                  outcome[i] \in {"exists", "unresolved"}
             /\ pc = "done" => i \in DOMAIN outcome /\ skipped_count >= 1
      /\ \A i \in unopened0 :
           /\ ResolvePath(library[i]) \in DOMAIN files0 =>
                \E j \in DOMAIN library \ {i} :
                  ResolvePath(library[j]) = ResolvePath(library[i])
           /\ ( /\ i \in DOMAIN outcome
                /\ i \in DOMAIN resolved
                /\ resolved[i] \notin DOMAIN files0
                /\ ~OpenedBefore(i) )
                => i \in fetched

\* The second run is complete: the first item, whose first transfer failed
\* after one chunk of two, was skipped for the file it left, and the
\* second, whose first fetch failed, was downloaded.
PartialFilesWitness ==
    /\ run = 2
    /\ pc = "done"
    /\ outcome = <<"exists", "downloaded">>
    /\ LeftTruncated(1)
    /\ Len(files[ResolvePath(library[1])]) = 1
    /\ 2 \in unopened0

\* The statements of main and setup_auth before download_photos has done
\* anything, and the exits they lead to.
BeforeDownload == {"main", "setup_auth", "trust_session", "download_photos"}

AuthExits == {"login", "setup_auth", "trust_session"}

\* Nothing has been enumerated, created or transferred in this run.
NothingStarted ==
    /\ total_photos = 0
    /\ idx = 0
    /\ outcome = <<>>
    /\ Touched = {}
    /\ dirs = DirsOf(files0)
    /\ files = files0

AuthInv ==
    /\ pc = "download_photos" => auth \in {"not_required", "2fa", "2sa"}
    /\ pc = "trust_session" => auth \in {"2fa", "2sa"}
    /\ auth = "failed" => pc = "exit1" /\ abort_at = "setup_auth"
    /\ (pc \in BeforeDownload \/ abort_at \in AuthExits) => NothingStarted
    /\ abort_at \in AuthExits => pc = "exit1" /\ ~ENABLED Next

AuthStep ==
    /\ (pc = "main" /\ pc' # "main") => pc' \in {"setup_auth", "exit1"}
    /\ (pc' = "download_photos" /\ pc # "download_photos") =>
         /\ pc \in {"setup_auth", "trust_session"}
         /\ auth' \in {"not_required", "2fa", "2sa"}
    /\ (pc = "setup_auth" /\ auth' \notin {"not_required", "2fa", "2sa"}) =>
         pc' = "exit1"
    /\ (pc' = "photos_all" /\ pc # "photos_all") => pc = "download_photos"

\* C16: download_photos is entered only from setup_auth, when no second
\* factor was required or the 2FA or the 2SA check accepted the code; when
\* login or the code's validation fails the process exits with status 1,
\* nothing runs after it, and nothing has been enumerated, no directory
\* created and no item transferred.
AuthenticationGatesDownload == []AuthInv /\ [][AuthStep]_vars

\* The code was rejected by both checks and the process has exited.
AuthenticationWitness ==
    /\ pc = "exit1"
    /\ auth = "failed"
    /\ abort_at = "setup_auth"
=============================================================================
